---------------------------- MODULE Spec2Model ----------------------------
(***************************************************************************)
(* A model of ics_logs_parser.py: the message-map loader, the line         *)
(* sanitizer, the fragment parser and the per-file extraction loop of      *)
(* main().                                                                 *)
(*                                                                         *)
(* Text is modelled as a sequence of Unicode code points (Python str).     *)
(* Python indices are 0-based and TLA+ sequences 1-based: Python's         *)
(* columns[k] is columns[k+1] here, and "field k" of a record is row[k+1]. *)
(* A raw line of a file is given as the text raw_line.decode("utf-8",      *)
(* errors="replace") returns; U+FFFD stands for an undecodable byte run.   *)
(* Platform: CPython 3 on Linux with a 64-bit time_t.                      *)
(***************************************************************************)
EXTENDS Integers, Sequences, FiniteSets, TLC

(***************************************************************************)
(* Characters the code names.                                              *)
(***************************************************************************)
TAB == 9
NL == 10
SPACE == 32
BEL == 7
COMMA == 44
DOT == 46
QMARK == 63
UNDERSCORE == 95
PLUS == 43
MINUS == 45
COLON == 58
ZERO == 48
HeaderOffset == 8192

\* str.strip() with no argument removes the characters str.isspace() accepts.
Whitespace ==
    {9, 10, 11, 12, 13, 28, 29, 30, 31, 32, 133, 160, 5760} \cup (8192..8202)
        \cup {8232, 8233, 8239, 8287, 12288}

\* int(str, base) turns non-ASCII whitespace into ' ' and then skips the
\* ASCII whitespace of C isspace(): U+001C..U+001F are not among it.
IntWhitespace == Whitespace \ {28, 29, 30, 31}

\* [\x17\x15\x13\x12\x05\x04\x03\x02\x01\x00]
SeparatorSet == {23, 21, 19, 18, 5, 4, 3, 2, 1, 0}

\* [\x0B\x1C\x0F\x06\x1E\x08\x10\x1D\x0E\x11\x14\x16\x17\x18\x19\x1F\x7F\x1A\x1B\x0C\uFFFD]
DeletionSet ==
    {11, 28, 15, 6, 30, 8, 16, 29, 14, 17, 20, 22, 23, 24, 25, 31, 127, 26,
     27, 12, 65533}

\* set(string.printable): digits, letters, punctuation and " \t\n\r\x0b\x0c".
Printable == (32..126) \cup {9, 10, 11, 12, 13}

(***************************************************************************)
(* str methods.                                                            *)
(***************************************************************************)
Range(s) == {s[i] : i \in DOMAIN s}

RECURSIVE LStrip(_)
LStrip(s) ==
    IF s = <<>> THEN s
    ELSE IF Head(s) \in Whitespace THEN LStrip(Tail(s)) ELSE s

RECURSIVE RStrip(_)
RStrip(s) ==
    IF s = <<>> THEN s
    ELSE IF s[Len(s)] \in Whitespace THEN RStrip(SubSeq(s, 1, Len(s) - 1))
         ELSE s

\* str.strip()
Strip(s) == RStrip(LStrip(s))

\* str.replace(a, b) for single characters
Replace(s, a, b) == [i \in DOMAIN s |-> IF s[i] = a THEN b ELSE s[i]]

\* the least index of ch in s from position i on; 0 when absent
RECURSIVE FindFrom(_, _, _)
FindFrom(s, ch, i) ==
    IF i > Len(s) THEN 0
    ELSE IF s[i] = ch THEN i ELSE FindFrom(s, ch, i + 1)

\* str.find(ch) + 1
Find(s, ch) == FindFrom(s, ch, 1)

\* str.split(ch): always at least one piece
RECURSIVE Split(_, _)
Split(s, ch) ==
    LET i == Find(s, ch)
    IN  IF i = 0 THEN <<s>>
        ELSE <<SubSeq(s, 1, i - 1)>> \o Split(SubSeq(s, i + 1, Len(s)), ch)

\* a variant that cuts at the last ch, as str.rsplit(ch, 1) does
Split1_FromRight(s, ch) ==
    LET hits == {i \in DOMAIN s : s[i] = ch}
        i == IF hits = {} THEN 0
             ELSE CHOOSE k \in hits : \A j \in hits : j <= k
    IN  IF i = 0 THEN <<s>>
        ELSE <<SubSeq(s, 1, i - 1), SubSeq(s, i + 1, Len(s))>>

\* str.split(ch, 1): at most one cut
Split1(s, ch) ==
    LET i == Find(s, ch)
    IN  IF i = 0 THEN <<s>>
        ELSE <<SubSeq(s, 1, i - 1), SubSeq(s, i + 1, Len(s))>>

(***************************************************************************)
(* replace_and_clean_line: four re.sub / join passes, in this order.       *)
(***************************************************************************)
\* a variant whose separator class lacks \x17
SeparatorPass_NoETB(line) ==
    [i \in DOMAIN line |->
        IF line[i] \in SeparatorSet \ {23} THEN NL ELSE line[i]]

SeparatorPass(line) ==
    [i \in DOMAIN line |-> IF line[i] \in SeparatorSet THEN NL ELSE line[i]]

BellPass(line) == Replace(line, BEL, SPACE)

RECURSIVE DeletionPass(_)
DeletionPass(line) ==
    IF line = <<>> THEN <<>>
    ELSE IF Head(line) \in DeletionSet THEN DeletionPass(Tail(line))
         ELSE <<Head(line)>> \o DeletionPass(Tail(line))

PrintablePass(line) ==
    [i \in DOMAIN line |-> IF line[i] \in Printable THEN line[i] ELSE QMARK]

\* a variant that deletes before it turns separators into newlines
replace_and_clean_line_DeleteFirst(line) ==
    PrintablePass(BellPass(SeparatorPass(DeletionPass(line))))

replace_and_clean_line(line) ==
    PrintablePass(DeletionPass(BellPass(SeparatorPass(line))))

(***************************************************************************)
(* int(raw_hex_timestamp, 16).  The value is kept as its sign and its hex  *)
(* digits without leading zeros, so that no magnitude is out of reach.     *)
(* Modelled for text whose digits are ASCII, which is all the sanitizer    *)
(* lets through.                                                           *)
(***************************************************************************)
HexDigitValue(c) ==
    IF c \in 48..57 THEN c - 48
    ELSE IF c \in 65..70 THEN c - 55
    ELSE IF c \in 97..102 THEN c - 87
    ELSE 16

IsHexDigit(c) == HexDigitValue(c) < 16

RECURSIVE IntLStrip(_)
IntLStrip(s) ==
    IF s = <<>> THEN s
    ELSE IF Head(s) \in IntWhitespace THEN IntLStrip(Tail(s)) ELSE s

RECURSIVE IntRStrip(_)
IntRStrip(s) ==
    IF s = <<>> THEN s
    ELSE IF s[Len(s)] \in IntWhitespace
         THEN IntRStrip(SubSeq(s, 1, Len(s) - 1))
         ELSE s

RECURSIVE DropLeadingZeros(_)
DropLeadingZeros(ds) ==
    IF ds = <<>> THEN ds
    ELSE IF Head(ds) = 0 THEN DropLeadingZeros(Tail(ds)) ELSE ds

\* digits with single underscores between them, as PyLong_FromString scans
WellFormedDigits(s) ==
    /\ s # <<>>
    /\ IsHexDigit(s[1])
    /\ IsHexDigit(s[Len(s)])
    /\ \A i \in DOMAIN s : IsHexDigit(s[i]) \/ s[i] = UNDERSCORE
    /\ \A i \in 1..(Len(s) - 1) : ~(s[i] = UNDERSCORE /\ s[i + 1] = UNDERSCORE)

RECURSIVE DigitValues(_)
DigitValues(s) ==
    IF s = <<>> THEN <<>>
    ELSE IF Head(s) = UNDERSCORE THEN DigitValues(Tail(s))
         ELSE <<HexDigitValue(Head(s))>> \o DigitValues(Tail(s))

\* [ok, neg, digits]: ok = FALSE is ValueError
IntBase16(text) ==
    LET t == IntRStrip(IntLStrip(text))
        signed == t # <<>> /\ t[1] \in {PLUS, MINUS}
        body == IF signed THEN Tail(t) ELSE t
        prefixed == Len(body) >= 2 /\ body[1] = ZERO /\ body[2] \in {120, 88}
        afterPrefix == IF prefixed THEN SubSeq(body, 3, Len(body)) ELSE body
        digs == IF prefixed /\ afterPrefix # <<>> /\ afterPrefix[1] = UNDERSCORE
                THEN Tail(afterPrefix) ELSE afterPrefix
    IN  IF WellFormedDigits(digs)
        THEN [ok |-> TRUE,
              neg |-> (signed /\ t[1] = MINUS
                         /\ DropLeadingZeros(DigitValues(digs)) # <<>>),
              digits |-> DropLeadingZeros(DigitValues(digs))]
        ELSE [ok |-> FALSE, neg |-> FALSE, digits |-> <<>>]

(***************************************************************************)
(* datetime.fromtimestamp(epoch_int, tz=timezone.utc) and strftime.        *)
(***************************************************************************)
\* a <= b for digit strings without leading zeros
RECURSIVE LexLeq(_, _)
LexLeq(a, b) ==
    IF a = <<>> THEN TRUE
    ELSE IF Head(a) # Head(b) THEN Head(a) < Head(b)
    ELSE LexLeq(Tail(a), Tail(b))

MagLeq(a, b) == Len(a) < Len(b) \/ (Len(a) = Len(b) /\ LexLeq(a, b))

\* 253402300799 = 0x3AFFF4417F, 9999-12-31 23:59:59
MaxEpochDigits == <<3, 10, 15, 15, 15, 4, 4, 1, 7, 15>>
\* 62135596800 = 0xE7791F700, so that -62135596800 is 0001-01-01 00:00:00
MinEpochDigits == <<14, 7, 7, 9, 1, 15, 7, 0, 0>>
\* 2^63 - 1, the largest time_t
MaxTimeTDigits == <<7>> \o [i \in 1..15 |-> 15]
\* 2^63, the magnitude of the least time_t
MinTimeTDigits == <<8>> \o [i \in 1..15 |-> 0]

\* "ok": a date-time; "caught": ValueError (year out of range) or OSError
\* (gmtime: EOVERFLOW); "overflow": OverflowError, the value no time_t holds.
FromTimestampOutcome(n) ==
    IF ~MagLeq(n.digits, IF n.neg THEN MinTimeTDigits ELSE MaxTimeTDigits)
    THEN "overflow"
    ELSE IF ~MagLeq(n.digits, IF n.neg THEN MinEpochDigits ELSE MaxEpochDigits)
    THEN "caught"
    ELSE "ok"

SecondsPerDay == 86400

\* <<days, seconds of the day>> of a magnitude, digit by digit
RECURSIVE DaysSecs(_)
DaysSecs(ds) ==
    IF ds = <<>> THEN <<0, 0>>
    ELSE LET p == DaysSecs(SubSeq(ds, 1, Len(ds) - 1))
             t == p[2] * 16 + ds[Len(ds)]
         IN  <<p[1] * 16 + (t \div SecondsPerDay), t % SecondsPerDay>>

\* floor division of the signed value by the seconds of a day
EpochDaysSecs(n) ==
    LET m == DaysSecs(n.digits)
    IN  IF ~n.neg THEN m
        ELSE IF m[2] = 0 THEN <<-m[1], 0>>
        ELSE <<-m[1] - 1, SecondsPerDay - m[2]>>

\* proleptic Gregorian <<year, month, day>> of a day count from 1970-01-01
CivilFromDays(days) ==
    LET z == days + 719468
        era == z \div 146097
        doe == z - era * 146097
        yoe == (doe - (doe \div 1460) + (doe \div 36524) - (doe \div 146096)) \div 365
        doy == doe - (365 * yoe + (yoe \div 4) - (yoe \div 100))
        mp == (5 * doy + 2) \div 153
        d == doy - ((153 * mp + 2) \div 5) + 1
        m == IF mp < 10 THEN mp + 3 ELSE mp - 9
        y == yoe + era * 400 + (IF m <= 2 THEN 1 ELSE 0)
    IN  <<y, m, d>>

RECURSIVE Decimal(_)
Decimal(n) ==
    IF n < 10 THEN <<ZERO + n>>
    ELSE Decimal(n \div 10) \o <<ZERO + (n % 10)>>

Pad2(n) == <<ZERO + (n \div 10), ZERO + (n % 10)>>

\* strftime("%Y-%m-%d %H:%M:%S"); glibc's %Y does not pad the year
FormatTimestamp(n) ==
    LET ds == EpochDaysSecs(n)
        ymd == CivilFromDays(ds[1])
        s == ds[2]
    IN  Decimal(ymd[1]) \o <<MINUS>> \o Pad2(ymd[2]) \o <<MINUS>>
          \o Pad2(ymd[3]) \o <<SPACE>> \o Pad2(s \div 3600) \o <<COLON>>
          \o Pad2((s % 3600) \div 60) \o <<COLON>> \o Pad2(s % 60)

(***************************************************************************)
(* process_subline.  kind "row": the list returned; "none": None;          *)
(* "raise": the OverflowError that except (ValueError, OSError) lets pass. *)
(***************************************************************************)
NoRow(kind) == [kind |-> kind, row |-> <<>>]

\* a variant that never blanks the last column
BlankLastColumn_Never(columns) == columns

\* columns[-1] = "" when it is one character long
BlankLastColumn(columns) ==
    IF Len(columns[Len(columns)]) = 1
    THEN [columns EXCEPT ![Len(columns)] = <<>>]
    ELSE columns

RECURSIVE PadTo(_, _)
PadTo(columns, n) ==
    IF Len(columns) < n THEN PadTo(Append(columns, <<>>), n) ELSE columns

\* lines 102-128, for columns that passed the structural checks: the code,
\* the timestamp, the inserted line id, the padding and the two map slots
fill_columns(columns, message_map) ==
    LET first_col == Split1(columns[1], DOT)
        raw_hex_timestamp == first_col[1]
        hex_line_id == first_col[2]
        code == Strip(columns[4])
        epoch_int == IntBase16(raw_hex_timestamp)
        outcome == IF epoch_int.ok THEN FromTimestampOutcome(epoch_int)
                   ELSE "caught"
        dt_str == IF outcome = "ok" THEN FormatTimestamp(epoch_int)
                  ELSE raw_hex_timestamp
        inserted == <<dt_str, hex_line_id>> \o Tail(columns)
        hit == code \in DOMAIN message_map
        msg_type == IF hit THEN message_map[code][1] ELSE <<>>
        msg_desc == IF hit THEN message_map[code][2] ELSE <<>>
        padded == PadTo(inserted, 6)
    IN  IF outcome = "overflow" THEN NoRow("raise")
        ELSE [kind |-> "row",
              row |-> [padded EXCEPT ![5] = msg_type, ![6] = msg_desc]]

\* a variant that converts the timestamp before it counts the columns
process_subline_ConvertFirst(subline, message_map) ==
    LET columns == BlankLastColumn(Split(Replace(subline, TAB, COMMA), COMMA))
        epoch_int == IntBase16(Split1(columns[1], DOT)[1])
    IN  IF DOT \notin Range(columns[1]) THEN NoRow("none")
        ELSE IF epoch_int.ok /\ FromTimestampOutcome(epoch_int) = "overflow"
        THEN NoRow("raise")
        ELSE IF Len(columns) < 4 THEN NoRow("none")
        ELSE fill_columns(columns, message_map)

process_subline(subline, message_map) ==
    LET columns == BlankLastColumn(Split(Replace(subline, TAB, COMMA), COMMA))
    IN  IF DOT \notin Range(columns[1]) THEN NoRow("none")
        ELSE IF Len(columns) < 4 THEN NoRow("none")
        ELSE fill_columns(columns, message_map)

(***************************************************************************)
(* load_message_map: one row of csv.reader, a list of fields.              *)
(***************************************************************************)
\* a variant that keeps the first row of a code
load_row_FirstWins(message_map, row) ==
    IF Len(row) # 3 THEN message_map
    ELSE LET code == Strip(row[1])
         IN  IF code # <<>> /\ code \notin DOMAIN message_map
             THEN [c \in DOMAIN message_map \cup {code} |->
                     IF c = code THEN <<Strip(row[2]), Strip(row[3])>>
                     ELSE message_map[c]]
             ELSE message_map

load_row(message_map, row) ==
    IF Len(row) # 3 THEN message_map
    ELSE LET code == Strip(row[1])
             msg_type == Strip(row[2])
             desc == Strip(row[3])
         IN  IF code # <<>>
             THEN [c \in DOMAIN message_map \cup {code} |->
                     IF c = code THEN <<msg_type, desc>> ELSE message_map[c]]
             ELSE message_map

(***************************************************************************)
(* get_vc0_content: the body of the inner loop for one sub-line, and the   *)
(* rows one cleaned line yields.                                           *)
(***************************************************************************)
\* kind "skip": shorter than 3; otherwise what process_subline does
sub_outcome(sub, message_map) ==
    LET stripped == Strip(sub)
    IN  IF Len(stripped) < 3 THEN NoRow("skip")
        ELSE process_subline(stripped, message_map)

\* the rows the inner loop appends for these sub-lines, when none raises
RECURSIVE sub_rows(_, _)
sub_rows(sub_lines, message_map) ==
    IF sub_lines = <<>> THEN <<>>
    ELSE LET r == sub_outcome(Head(sub_lines), message_map)
         IN  (IF r.kind = "row" THEN <<r.row>> ELSE <<>>)
               \o sub_rows(Tail(sub_lines), message_map)

\* a variant that puts the new row first
collect_Prepend(acc, r) == IF r.kind = "row" THEN <<r.row>> \o acc ELSE acc

\* "if row: rows.append(row)"
collect(acc, r) == IF r.kind = "row" THEN Append(acc, r.row) ELSE acc

\* the rows a stripped decoded line yields
line_rows(text, message_map) ==
    sub_rows(Split(replace_and_clean_line(text), NL), message_map)

\* the header row main() writes
Header ==
    <<"Timestamp", "Line ID", "Device Hostname", "Msg Code", "Msg Description",
      "Msg Category", "Log Source Type", "Device Network", "Source IP",
      "Msg Data 10", "Msg Data 11", "Msg Data 12", "Msg Data 13",
      "Msg Data 14", "Msg Data 15", "Msg Data 16", "Msg Data 17",
      "Msg Data 18", "Msg Data 19", "Msg Data 20", "Msg Data 21",
      "Msg Data 22", "Msg Data 23", "Msg Data 24", "Msg Data 25",
      "Msg Data 26", "Msg Data 27", "Msg Data 28", "Msg Data 29",
      "Msg Data 30">>

\* bytes of the UTF-8 encoding of one character
Utf8Len(c) == IF c < 128 THEN 1 ELSE IF c < 2048 THEN 2
              ELSE IF c < 65536 THEN 3 ELSE 4

\* bytes of the UTF-8 encoding of a text
RECURSIVE Utf8Bytes(_)
Utf8Bytes(text) ==
    IF text = <<>> THEN 0 ELSE Utf8Len(Head(text)) + Utf8Bytes(Tail(text))

\* bytes of the UTF-8 encoding of the lines, each ended by "\n" except,
\* when endsWithNewline is FALSE, the last one
RECURSIVE EncodedBytes(_, _)
EncodedBytes(lines, endsWithNewline) ==
    IF lines = <<>> THEN 0
    ELSE IF Len(lines) = 1
    THEN Utf8Bytes(lines[1]) + (IF endsWithNewline THEN 1 ELSE 0)
    ELSE Utf8Bytes(Head(lines)) + 1
         + EncodedBytes(Tail(lines), endsWithNewline)

\* a .vc0 file on disk whose bytes are a whole header and then the UTF-8
\* encoding of the lines: what os.path.getsize returns for it, and the lines
\* get_vc0_content reads from it
VcFile(lines, endsWithNewline) ==
    [size |-> HeaderOffset + EncodedBytes(lines, endsWithNewline),
     lines |-> lines]

\* a .vc0 file of n <= 8192 bytes: seek(8192) leaves nothing to read
ShortFile(n) == [size |-> n, lines |-> <<>>]

(***************************************************************************)
(* The program state.                                                      *)
(*   mapRows, files, sizes the inputs: the rows of the map file and, per   *)
(*                         .vc0 file of the input directory, its lines     *)
(*                         after the header and its size in bytes          *)
(*   pc                    "load" (load_message_map's loop), "files"       *)
(*                         (main's loop), "lines" and "subs" (the loops of *)
(*                         get_vc0_content), "write", "done", "crashed"    *)
(*   line, cleaned         the stripped decoded line, before and after     *)
(*                         replace_and_clean_line                          *)
(*   sub_lines             its sub-lines                                   *)
(*   rows                  get_vc0_content's list                          *)
(*   outputs               the CSV files written                           *)
(* History variables: origin (per row, the line and sub-line position it   *)
(* came from), lineStart (Len(rows) when the line was read), last (the     *)
(* latest sub-line handled: its text, the outcome, rows before and after). *)
(***************************************************************************)
VARIABLES mapRows, files, sizes,
          pc, mapIdx, message_map, fileIdx, lineIdx, line,
          cleaned, sub_lines, subIdx, rows, outputs, origin, lineStart, last

vars == <<mapRows, files, sizes,
          pc, mapIdx, message_map, fileIdx, lineIdx, line,
          cleaned, sub_lines, subIdx, rows, outputs, origin, lineStart, last>>

EmptyMap == [c \in {} |-> <<>>]

NoLast ==
    [sub |-> <<>>, kind |-> "init", row |-> <<>>, before |-> <<>>,
     after |-> <<>>]

\* os.path.getsize of the k-th .vc0 file
getsize(k) == sizes[k]

InitWith(rowChoices, batchChoices) ==
    /\ mapRows \in rowChoices
    /\ \E batch \in batchChoices :
          /\ files = [k \in 1..Len(batch) |-> batch[k].lines]
          /\ sizes = [k \in 1..Len(batch) |-> batch[k].size]
    /\ pc = "load"
    /\ mapIdx = 1
    /\ message_map = EmptyMap
    /\ fileIdx = 1
    /\ lineIdx = 1
    /\ line = <<>>
    /\ cleaned = <<>>
    /\ sub_lines = <<>>
    /\ subIdx = 1
    /\ rows = <<>>
    /\ outputs = <<>>
    /\ origin = <<>>
    /\ lineStart = 0
    /\ last = NoLast

\* load_message_map, one iteration of "for row in reader"
LoadRow ==
    /\ pc = "load"
    /\ mapIdx <= Len(mapRows)
    /\ message_map' = load_row(message_map, mapRows[mapIdx])
    /\ mapIdx' = mapIdx + 1
    /\ UNCHANGED <<mapRows, files, sizes,
                   pc, fileIdx, lineIdx, line, cleaned,
                   sub_lines, subIdx, rows, outputs, origin, lineStart, last>>

\* load_message_map returns; main() lists the .vc0 files and exits when
\* there is none
LoadEnd ==
    /\ pc = "load"
    /\ mapIdx > Len(mapRows)
    /\ pc' = IF files = <<>> THEN "done" ELSE "files"
    /\ UNCHANGED <<mapRows, files, sizes,
                   mapIdx, message_map, fileIdx, lineIdx, line,
                   cleaned, sub_lines, subIdx, rows, outputs, origin, lineStart,
                   last>>

\* main(), "for vc0_file in vc0_files": a file of exactly 8192 bytes is
\* skipped, any other (a shorter one too) is handed to get_vc0_content
NextFile ==
    /\ pc = "files"
    /\ IF fileIdx > Len(files)
       THEN /\ pc' = "done"
            /\ UNCHANGED <<fileIdx, lineIdx, rows, origin, lineStart>>
       ELSE IF getsize(fileIdx) = HeaderOffset
       THEN /\ pc' = "files"
            /\ fileIdx' = fileIdx + 1
            /\ UNCHANGED <<lineIdx, rows, origin, lineStart>>
       ELSE /\ pc' = "lines"
            /\ lineIdx' = 1
            /\ rows' = <<>>
            /\ origin' = <<>>
            /\ lineStart' = 0
            /\ UNCHANGED fileIdx
    /\ UNCHANGED <<mapRows, files, sizes,
                   mapIdx, message_map, line, cleaned, sub_lines,
                   subIdx, outputs, last>>

\* get_vc0_content, "for raw_line in f_in": decode, strip, clean, split
ReadLine ==
    /\ pc = "lines"
    /\ lineIdx <= Len(files[fileIdx])
    /\ line' = Strip(files[fileIdx][lineIdx])
    /\ cleaned' = replace_and_clean_line(line')
    /\ sub_lines' = Split(cleaned', NL)
    /\ subIdx' = 1
    /\ lineStart' = Len(rows)
    /\ pc' = "subs"
    /\ UNCHANGED <<mapRows, files, sizes,
                   mapIdx, message_map, fileIdx, lineIdx, rows,
                   outputs, origin, last>>

\* get_vc0_content, "for sub in sub_lines": one sub-line.  An exception
\* process_subline raises is caught nowhere and ends the program.
ProcessSub ==
    /\ pc = "subs"
    /\ subIdx <= Len(sub_lines)
    /\ LET r == sub_outcome(sub_lines[subIdx], message_map)
       IN  /\ rows' = collect(rows, r)
           /\ last' = [sub |-> sub_lines[subIdx], kind |-> r.kind,
                       row |-> r.row, before |-> rows, after |-> rows']
           /\ origin' = IF r.kind = "row"
                        THEN Append(origin, <<lineIdx, subIdx>>) ELSE origin
           /\ IF r.kind = "raise"
              THEN pc' = "crashed" /\ UNCHANGED <<subIdx, lineIdx>>
              ELSE IF subIdx = Len(sub_lines)
              THEN pc' = "lines" /\ lineIdx' = lineIdx + 1 /\ UNCHANGED subIdx
              ELSE pc' = "subs" /\ subIdx' = subIdx + 1 /\ UNCHANGED lineIdx
    /\ UNCHANGED <<mapRows, files, sizes,
                   mapIdx, message_map, fileIdx, line, cleaned,
                   sub_lines, outputs, lineStart>>

\* get_vc0_content returns rows
EndFile ==
    /\ pc = "lines"
    /\ lineIdx > Len(files[fileIdx])
    /\ pc' = "write"
    /\ UNCHANGED <<mapRows, files, sizes,
                   mapIdx, message_map, fileIdx, lineIdx, line,
                   cleaned, sub_lines, subIdx, rows, outputs, origin, lineStart,
                   last>>

\* main(): the header row, then csv_writer.writerow(row) for each row
WriteCsv ==
    /\ pc = "write"
    /\ outputs' = Append(outputs, [file |-> fileIdx, header |-> Header,
                                   rows |-> rows])
    /\ fileIdx' = fileIdx + 1
    /\ pc' = "files"
    /\ UNCHANGED <<mapRows, files, sizes,
                   mapIdx, message_map, lineIdx, line, cleaned,
                   sub_lines, subIdx, rows, origin, lineStart, last>>

Next ==
    \/ LoadRow
    \/ LoadEnd
    \/ NextFile
    \/ ReadLine
    \/ ProcessSub
    \/ EndFile
    \/ WriteCsv

(***************************************************************************)
(* Inputs.  Each specification runs the whole program on inputs drawn from *)
(* a bounded set.                                                          *)
(***************************************************************************)
MaxFiles == 1
MaxLines == 2
MaxExtraCols == 5
MaxColsAnyFirst == 3
MaxCleanLen == 3
MaxMapRows == 3

\* '1A2B3C.00,0,,ADM23247,,'
LineExample ==
    <<49, 65, 50, 66, 51, 67, 46, 48, 48, 44, 48, 44, 44, 65, 68, 77, 50,
    51, 50, 52, 55, 44, 44>>

\* 'ZZZZ.1\th\tx\tB1\te\tf\tg\x02ab\x17x.1,a\x015F5E1000.2,h,,ADM23247': an accepted fragment, a short
\* one, one with too few columns and another accepted one
LineMixed ==
    <<90, 90, 90, 90, 46, 49, 9, 104, 9, 120, 9, 66, 49, 9, 101, 9, 102,
    9, 103, 2, 97, 98, 23, 120, 46, 49, 44, 97, 1, 53, 70, 53, 69, 49, 48,
    48, 48, 46, 50, 44, 104, 44, 44, 65, 68, 77, 50, 51, 50, 52, 55>>

\* '8000000000000000.0,0,,A'
LineOverflow ==
    <<56, 48, 48, 48, 48, 48, 48, 48, 48, 48, 48, 48, 48, 48, 48, 48, 46,
    48, 44, 48, 44, 44, 65>>

\* '1A2B3C.00'
FirstExample ==
    <<49, 65, 50, 66, 51, 67, 46, 48, 48>>

\* 'ZZZZ.1'
FirstNotHex ==
    <<90, 90, 90, 90, 46, 49>>

\* 'a.b.c'
FirstTwoDots ==
    <<97, 46, 98, 46, 99>>

\* 'nodot'
FirstNoDot ==
    <<110, 111, 100, 111, 116>>

\* '.'
FirstDotOnly ==
    <<46>>

\* '8000000000000000.0'
FirstOverflow ==
    <<56, 48, 48, 48, 48, 48, 48, 48, 48, 48, 48, 48, 48, 48, 48, 48, 46,
    48>>

\* '3AFFF44180.0'
FirstYear10000 ==
    <<51, 65, 70, 70, 70, 52, 52, 49, 56, 48, 46, 48>>

\* '-1.x'
FirstNegative ==
    <<45, 49, 46, 120>>

\* 'ab'
FirstShort ==
    <<97, 98>>

\* ''
ColEmpty ==
    <<>>

\* 'A'
ColA ==
    <<65>>

\* ' B1'
ColSpaceB1 ==
    <<32, 66, 49>>

\* 'ZZ'
ColZZ ==
    <<90, 90>>

\* '1A2B3C.00,0,,ADM23247,,'
FragExample ==
    <<49, 65, 50, 66, 51, 67, 46, 48, 48, 44, 48, 44, 44, 65, 68, 77, 50,
    51, 50, 52, 55, 44, 44>>

\* 'ZZZZ.1,h,A,A'
FragFallback ==
    <<90, 90, 90, 90, 46, 49, 44, 104, 44, 65, 44, 65>>

\* 'ab'
FragShort ==
    <<97, 98>>

\* ''
FragEmpty ==
    <<>>

\* ' x.1,a,b, B1 '
FragSpaces ==
    <<32, 120, 46, 49, 44, 97, 44, 98, 44, 32, 66, 49, 32>>

\* '\xa01.0,a,b,A,c\xa0'
FragNbsp ==
    <<160, 49, 46, 48, 44, 97, 44, 98, 44, 65, 44, 99, 160>>

\* '\x07ab'
FragBell ==
    <<7, 97, 98>>

\* 'a\x0b.1,b,c,d'
FragDeleted ==
    <<97, 11, 46, 49, 44, 98, 44, 99, 44, 100>>

\* '8000000000000000.0,0,,A'
FragOverflow ==
    <<56, 48, 48, 48, 48, 48, 48, 48, 48, 48, 48, 48, 48, 48, 48, 48, 46,
    48, 44, 48, 44, 44, 65>>

\* 'é.1,a,b,c,d'
FragAccent ==
    <<233, 46, 49, 44, 97, 44, 98, 44, 99, 44, 100>>

\* 'nodot,a,b,c'
FragNoDot ==
    <<110, 111, 100, 111, 116, 44, 97, 44, 98, 44, 99>>

\* 'x.1,a,b'
FragFewCols ==
    <<120, 46, 49, 44, 97, 44, 98>>

\* '8000000000000000.0,a'
FragOverflowFew ==
    <<56, 48, 48, 48, 48, 48, 48, 48, 48, 48, 48, 48, 48, 48, 48, 48, 46, 48, 44, 97>>

\* ['ADM23247', 'AdminChange', 'addServer']
RowADM == <<<<65, 68, 77, 50, 51, 50, 52, 55>>, <<65, 100, 109, 105, 110, 67, 104, 97, 110, 103, 101>>, <<97, 100, 100, 83, 101, 114, 118, 101, 114>>>>

\* ['A', 'T', 'D']
RowA == <<<<65>>, <<84>>, <<68>>>>

\* ['A', 'T2', '']
RowA2 == <<<<65>>, <<84, 50>>, <<>>>>

\* [' A ', ' T', 'D ']
RowASpaces == <<<<32, 65, 32>>, <<32, 84>>, <<68, 32>>>>

\* ['', 'T', 'D']
RowNoCode == <<<<>>, <<84>>, <<68>>>>

\* [' ', 'T', 'D']
RowBlankCode == <<<<32>>, <<84>>, <<68>>>>

\* ['B1', 'T']
RowTwoFields == <<<<66, 49>>, <<84>>>>

\* ['B1', 'T', 'D', 'x']
RowFourFields == <<<<66, 49>>, <<84>>, <<68>>, <<120>>>>

\* ['B1', 'U', 'E']
RowB1 == <<<<66, 49>>, <<85>>, <<69>>>>

\* the sequences over S of length at most n
SeqsUpTo(S, n) == UNION {[1..k -> S] : k \in 0..n}

DefaultMapRows == <<RowADM, RowA, RowB1>>

LineSet == {LineExample, LineMixed, LineOverflow}

\* sizes of files that end at or before the end of the header
ShortSizes == {0, 100, 8191}

\* the files: cut short, holding up to MaxLines lines (none: exactly 8192
\* bytes), or one line with no "\n" after it
FileSet ==
    {ShortFile(n) : n \in ShortSizes}
    \cup {VcFile(ls, TRUE) : ls \in SeqsUpTo(LineSet, MaxLines)}
    \cup {VcFile(<<l>>, FALSE) : l \in LineSet}

\* batches of files
Batches == SeqsUpTo(FileSet, MaxFiles)

Init == InitWith({DefaultMapRows}, Batches)

Spec == Init /\ [][Next]_vars

\* one fragment per run: a first column, then delimited columns
FirstCols ==
    {FirstExample, FirstNotHex, FirstTwoDots, FirstNoDot, FirstDotOnly,
     FirstOverflow, FirstYear10000, FirstNegative, FirstShort}

ColSet == {ColEmpty, ColA, ColSpaceB1, ColZZ}

RECURSIVE JoinCols(_, _, _)
JoinCols(first, cols, delim) ==
    IF cols = <<>> THEN first
    ELSE JoinCols(first \o <<delim>> \o Head(cols), Tail(cols), delim)

\* every first column with few columns after it, and the example's first
\* column with up to MaxExtraCols of them
Fragments ==
    {JoinCols(f, cols, delim) :
        f \in FirstCols, cols \in SeqsUpTo(ColSet, MaxColsAnyFirst),
        delim \in {COMMA, TAB}}
    \cup {JoinCols(FirstExample, cols, delim) :
            cols \in SeqsUpTo(ColSet, MaxExtraCols), delim \in {COMMA, TAB}}

InitSub == InitWith({DefaultMapRows}, {<<VcFile(<<f>>, TRUE)>> : f \in Fragments})

SpecSub == InitSub /\ [][Next]_vars

\* one line per run, any text over these characters: two separators (ETB is
\* also in the deletion set), the bell, a deleted control, U+FFFD, a letter,
\* a space, a non-ASCII letter and the no-break space
CleanAlphabet == {2, 23, 7, 11, 65533, 65, 32, 233, 160}

InitClean ==
    InitWith({DefaultMapRows},
             {<<VcFile(<<text>>, TRUE)>> :
                 text \in SeqsUpTo(CleanAlphabet, MaxCleanLen)})

SpecClean == InitClean /\ [][Next]_vars

\* one line per run: two fragments with a separator character between them
FragSet ==
    {FragExample, FragFallback, FragShort, FragEmpty, FragSpaces, FragNbsp,
     FragBell, FragDeleted, FragOverflow, FragAccent, FragNoDot,
     FragFewCols, FragOverflowFew}

InitSplit ==
    InitWith({DefaultMapRows},
             {<<VcFile(<<u \o <<c>> \o v>>, TRUE)>> :
                 u \in FragSet, c \in SeparatorSet, v \in FragSet})

SpecSplit == InitSplit /\ [][Next]_vars

\* any rows of the map file, then the example line
RowSet ==
    {RowADM, RowA, RowA2, RowASpaces, RowNoCode, RowBlankCode, RowTwoFields,
     RowFourFields, RowB1}

InitLoad == InitWith(SeqsUpTo(RowSet, MaxMapRows), {<<VcFile(<<LineExample>>, TRUE)>>})

SpecLoad == InitLoad /\ [][Next]_vars

(***************************************************************************)
(* What the claims speak of, stated on the fragment itself.                *)
(***************************************************************************)
\* the fragment get_vc0_content passed (or would pass) to process_subline
Frag == Strip(last.sub)

\* the comma- or tab-separated source columns of a fragment
SourceColumns(frag) == Split(Replace(frag, TAB, COMMA), COMMA)

\* the text before and after the first '.' of a column
BeforeDot(col) == SubSeq(col, 1, Find(col, DOT) - 1)

AfterDot(col) == SubSeq(col, Find(col, DOT) + 1, Len(col))

\* the structural checks: a '.' in the first column, at least 4 columns
Structural(frag) ==
    /\ Len(frag) >= 3
    /\ DOT \in Range(SourceColumns(frag)[1])
    /\ Len(SourceColumns(frag)) >= 4

\* a sub-line has been handled
Handled == last.kind # "init"

\* the hex timestamp does not parse or is no UTC date-time
Unconvertible(ts) ==
    \/ ~IntBase16(ts).ok
    \/ FromTimestampOutcome(IntBase16(ts)) # "ok"

\* slots 4 and 5 of a row are what the map holds for a code, or are empty
SlotsAre(row, code) ==
    IF code \in DOMAIN message_map
    THEN row[5] = message_map[code][1] /\ row[6] = message_map[code][2]
    ELSE row[5] = <<>> /\ row[6] = <<>>

\* C1: the Msg Code field (field 3) of every record holds the message code
\* of source column 3, the value looked up in the map; the example line
\* yields LineID "00" and MsgCode "ADM23247".
C1_MsgCodeField ==
    last.kind = "row" =>
        /\ last.row[4] = Strip(SourceColumns(Frag)[4])
        /\ Frag = LineExample =>
              last.row[2] = <<48, 48>> /\ last.row[4] = RowADM[1]

\* C2 as stated: for every fragment that passes the structural checks,
\* process_subline returns a record whose slots 4 and 5 are the map's
\* (type, description) for the trimmed column 3, or both empty when it is
\* no key; for every code, one-character and final-column codes included.
C2_SlotsForEveryCode ==
    (Handled /\ Structural(Frag)) =>
        /\ last.kind = "row"
        /\ SlotsAre(last.row, Strip(SourceColumns(Frag)[4]))

\* C2 amended: every record process_subline returns for such a fragment has
\* in slots 4 and 5 the map's (type, description) for the trimmed column 3,
\* or both empty when it is no key; except that a column 3 which is the
\* fragment's final column and exactly one character long is blanked before
\* the lookup, so that both slots are empty.
C2_SlotsUnlessBlanked ==
    (Handled /\ Structural(Frag)) =>
        /\ last.kind \in {"row", "raise"}
        /\ last.kind = "row" =>
             LET cols == SourceColumns(Frag)
             IN  IF Len(cols) = 4 /\ Len(cols[4]) = 1
                 THEN last.row[5] = <<>> /\ last.row[6] = <<>>
                 ELSE SlotsAre(last.row, Strip(cols[4]))

\* a one-character code in column 3, not the final column, found in the map
C2_Witness ==
    /\ last.kind = "row"
    /\ Len(SourceColumns(Frag)) > 4
    /\ SourceColumns(Frag)[4] = ColA
    /\ last.row[5] = RowA[2]
    /\ last.row[6] = RowA[3]

\* C3: every data row written under the 30-label header has exactly 30
\* fields.
C3_ThirtyFields ==
    \A k \in DOMAIN outputs :
        \A r \in DOMAIN outputs[k].rows :
            Len(outputs[k].rows[r]) = Len(outputs[k].header)

\* C4: whenever the hex timestamp of a structurally valid fragment does not
\* parse or is out of range, whatever its magnitude, the record is emitted
\* with the raw hex string as field 0, and no exception ends the run.
C4_FallbackNeverRaises ==
    /\ pc # "crashed"
    /\ (Handled /\ Structural(Frag)
          /\ Unconvertible(BeforeDot(SourceColumns(Frag)[1]))) =>
            /\ last.kind = "row"
            /\ last.row[1] = BeforeDot(SourceColumns(Frag)[1])

\* C5: a fragment shorter than 3 after trimming, or without '.' in its first
\* column, or with fewer than 4 columns, adds no record, raises nothing and
\* leaves the records collected so far as they were.
C5_RejectedAddsNothing ==
    (Handled /\ ~Structural(Frag)) =>
        /\ last.kind \in {"skip", "none"}
        /\ last.after = last.before
        /\ pc # "crashed"

\* a rejected fragment after an accepted one of the same line
C5_Witness ==
    /\ last.kind = "none"
    /\ Len(last.before) = 1
    /\ rows = last.before
    /\ Frag \in {FragNoDot, FragFewCols, FragOverflowFew}

\* C6: after any rows have been read, the map's keys are the trimmed,
\* non-empty first fields of the rows with exactly 3 fields, each mapped to
\* the trimmed type and description of the last such row with that code;
\* the other rows change nothing.
C6_MapIsLastGoodRows ==
    LET read == SubSeq(mapRows, 1, mapIdx - 1)
        good == {i \in DOMAIN read :
                    Len(read[i]) = 3 /\ Strip(read[i][1]) # <<>>}
        IsLast(i) == \A j \in good :
                        j > i => Strip(read[j][1]) # Strip(read[i][1])
    IN  /\ DOMAIN message_map = {Strip(read[i][1]) : i \in good}
        /\ \A i \in good :
              IsLast(i) =>
                message_map[Strip(read[i][1])] =
                    <<Strip(read[i][2]), Strip(read[i][3])>>

\* two rows with the code "A" around a malformed row: the later one wins
C6_Witness ==
    /\ pc = "done"
    /\ mapRows = <<RowASpaces, RowTwoFields, RowA2>>
    /\ DOMAIN message_map = {RowA[1]}
    /\ message_map[RowA[1]] = <<RowA2[2], RowA2[3]>>

\* the positions of a line that end a sub-line
SepPositions(text) == {i \in DOMAIN text : text[i] \in SeparatorSet \cup {NL}}

\* u + c + v with one separator control character c and none in u or v
TwoFragments(text) ==
    /\ Cardinality(SepPositions(text)) = 1
    /\ \A i \in SepPositions(text) : text[i] \in SeparatorSet

CutAt(text) == CHOOSE i \in SepPositions(text) : TRUE

\* C7: a decoded line u + c + v, c a separator control character, is handled
\* as the two fragments u and v: its sub-lines are the cleaned u and the
\* cleaned v, and its records are the records of u followed by those of v.
C7_SplitsInTwo ==
    (pc = "lines" /\ lineIdx > 1 /\ TwoFragments(line)) =>
        LET u == SubSeq(line, 1, CutAt(line) - 1)
            v == SubSeq(line, CutAt(line) + 1, Len(line))
        IN  /\ sub_lines = <<replace_and_clean_line(u),
                             replace_and_clean_line(v)>>
            /\ SubSeq(rows, lineStart + 1, Len(rows)) =
                  line_rows(u, message_map) \o line_rows(v, message_map)

\* ETB (0x17) between two accepted fragments: two records
C7_Witness ==
    /\ pc = "lines"
    /\ lineIdx > 1
    /\ line = FragExample \o <<23>> \o FragFallback
    /\ Len(rows) = 2

\* what the four passes make of one character
CleanChar(c) ==
    IF c \in SeparatorSet THEN <<NL>>
    ELSE IF c = BEL THEN <<SPACE>>
    ELSE IF c \in DeletionSet THEN <<>>
    ELSE IF c \in Printable THEN <<c>>
    ELSE <<QMARK>>

RECURSIVE CleanText(_)
CleanText(text) ==
    IF text = <<>> THEN <<>>
    ELSE CleanChar(Head(text)) \o CleanText(Tail(text))

\* C8: the cleaned line is the line with every separator turned into a
\* newline (0x17 too, never deleted), the bell into a space, the deletion
\* set removed (U+FFFD too, never '?') and any other character outside
\* string.printable turned into '?'; it holds only printable characters.
C8_FourPassesInOrder ==
    /\ cleaned = CleanText(line)
    /\ Range(cleaned) \subseteq Printable

\* ETB, U+FFFD and a non-ASCII letter: a newline, nothing, and '?'
C8_Witness ==
    /\ pc = "subs"
    /\ line = <<23, 65533, 233>>
    /\ cleaned = <<NL, QMARK>>

\* the rows of the first n lines of a file
RECURSIVE FileRows(_, _)
FileRows(lines, n) ==
    IF n = 0 THEN <<>>
    ELSE FileRows(lines, n - 1) \o line_rows(Strip(lines[n]), message_map)

\* the sub-line a row's origin names, as get_vc0_content met it
SubAt(lines, at) ==
    Split(replace_and_clean_line(Strip(lines[at[1]])), NL)[at[2]]

Earlier(a, b) == a[1] < b[1] \/ (a[1] = b[1] /\ a[2] < b[2])

\* C9: the rows of a file are the rows of its accepted fragments, one each,
\* in the order of their lines and of their sub-lines within a line; a step
\* appends one row or none and leaves the collected rows as they were.
C9_EncounterOrder ==
    /\ pc = "lines" => rows = FileRows(files[fileIdx], lineIdx - 1)
    /\ pc = "subs" =>
          rows = FileRows(files[fileIdx], lineIdx - 1)
                   \o sub_rows(SubSeq(sub_lines, 1, subIdx - 1), message_map)
    /\ pc = "write" => rows = FileRows(files[fileIdx], Len(files[fileIdx]))
    /\ \A k \in DOMAIN outputs :
          outputs[k].rows =
              FileRows(files[outputs[k].file], Len(files[outputs[k].file]))
    /\ pc \in {"lines", "subs", "write"} =>
          /\ Len(origin) = Len(rows)
          /\ \A i, j \in DOMAIN origin : i < j => Earlier(origin[i], origin[j])
          /\ \A i \in DOMAIN origin :
                rows[i] = sub_outcome(SubAt(files[fileIdx], origin[i]),
                                      message_map).row
    /\ last.after \in {last.before, Append(last.before, last.row)}

\* three rows: the first and fourth sub-line of line 1, then line 2
C9_Witness ==
    /\ pc = "write"
    /\ files[fileIdx] = <<LineMixed, LineExample>>
    /\ origin = <<<<1, 1>>, <<1, 4>>, <<2, 1>>>>
    /\ Len(rows) = 3

\* C10: a record of a fragment with n >= 4 source columns has max(n+1, 6)
\* fields; field 1 is the text after the first '.' of source column 0; and
\* field i+1 is source column i for every i >= 1 with i+1 not 4 or 5, a
\* final source column of one character being blanked.
C10_ColumnsShiftByOne ==
    last.kind = "row" =>
        LET cols == SourceColumns(Frag)
            n == Len(cols)
        IN  /\ n >= 4
            /\ Len(last.row) = IF n + 1 > 6 THEN n + 1 ELSE 6
            /\ last.row[2] = AfterDot(cols[1])
            /\ \A i \in 1..(n - 1) :
                  (i + 1) \notin {4, 5} =>
                    last.row[i + 2] =
                        IF i = n - 1 /\ Len(cols[i + 1]) = 1 THEN <<>>
                        ELSE cols[i + 1]

\* six source columns, the last one character long: seven fields, source
\* column 2 in field 3, the last field blanked
C10_Witness ==
    /\ last.kind = "row"
    /\ Len(SourceColumns(Frag)) = 6
    /\ SourceColumns(Frag)[6] = ColA
    /\ SourceColumns(Frag)[3] = ColZZ
    /\ Len(last.row) = 7
    /\ last.row[7] = <<>>
    /\ last.row[4] = ColZZ

=============================================================================
